---------------------------- MODULE Spec2Model ----------------------------
(***************************************************************************)
(* Model of the Smartlead operations tool:                                 *)
(*   - clients/smartlead/index.py          lead pagination, sequences      *)
(*   - clients/smartlead/internal/index.py lead deletion, follow-up %      *)
(*   - pages/va/add_follow_ups.py          sequence duplicator + workflow  *)
(*   - pages/va/filter_leads_from_campaign.py  lead classifier, page      *)
(*                                                                         *)
(* Python's Optional[T] is encoded as a sequence: None is << >> and a      *)
(* value v is << v >>.                                                     *)
(***************************************************************************)
EXTENDS Integers, Sequences, FiniteSets, TLC

VARIABLES
    \* ---- get_leads_by_campaign_id_with_pagination (clients/smartlead/index.py)
    campaign_leads,     \* platform side: the lead mappings of the campaign, in platform order
    lead_category_id,   \* argument (Optional[int])
    event_time,         \* argument (Optional[str])
    leads,              \* local `leads`
    total_leads,        \* local `total_leads` (Optional: unset until the first page validates)
    page_pc,            \* position in the function
    requests,           \* query_params of every request sent so far, with its outcome
    \* ---- platform side of the sequence / follow-up endpoints
    sequences,              \* campaign id -> the campaign's sequences, as GET .../sequences lists them
    follow_up_percentage,   \* campaign id -> follow_up_percentage of the campaign
    platform_next_id,       \* next id the platform gives to a sequence it creates
    \* ---- pages/va/add_follow_ups.py session state (ss.*)
    selected_campaigns,
    delay_period,
    change_follow_up_percentage,
    running_add_followups,
    successful_campaigns,
    failed_campaigns,
    runner_i,               \* campaigns of ss.selected_campaigns the runner loop has handled
    runs,                   \* runs of the runner block started so far
    api_log,                \* calls of client functions made by the current run, in order
    \* ---- direct calls of add_follow_ups_to_campaign
    dup_expected,           \* the expected_sequence_length argument of these calls
    dup_calls,              \* one record per call made so far
    \* ---- process_leads (pages/va/filter_leads_from_campaign.py)
    raw_leads,              \* argument: the uploaded leads
    blocklisted_industries, \* argument
    whitelisted_industries, \* argument
    whitelisted_areas,      \* argument
    cls_pc,                 \* position in process_leads
    batch_idx,              \* batches started so far
    leads_to_remove,        \* local `leads_to_remove`, as indices into raw_leads
    task,                   \* lead index -> state of its check_one coroutine
    model_calls,            \* lead index -> the model calls completed for it, in order
    \* ---- remove_multiple_leads_from_campaign (clients/smartlead/internal/index.py)
    smartlead_campaign_id,  \* argument
    email_lead_ids,         \* argument
    email_lead_map_ids,     \* argument
    auth_token,             \* os.environ SMARTLEAD_INTERNAL_API_TOKEN (Optional[str])
    remove_calls,           \* one record per call made so far
    \* ---- pages/va/filter_leads_from_campaign.py: platform, uploaded file, session state
    campaign_mappings,      \* platform side: campaign id -> its lead mappings
    selected_campaign_id,   \* ss.selected_campaign_id
    selected_campaign_name, \* ss.selected_campaign_name
    ss_leads_to_remove,     \* ss.leads_to_remove
    lead_details,           \* ss.lead_details
    filtered_blob_url,      \* ss.filtered_blob_url
    removing,               \* ss.removing
    filter_pc,              \* position of the script run in the filter/upload handler
    filter_run,             \* the last filter/upload run: its number, what it found at its start, how it ended
    blob_uploads,           \* one record per upload_filtered_leads_to_blob call
    lead_fetches,           \* one record per campaign lead fetch of the page
    remove_clicks           \* clicks on the remove confirmation so far

pageVars == << campaign_leads, lead_category_id, event_time, leads, total_leads,
               page_pc, requests >>
platformVars == << sequences, follow_up_percentage, platform_next_id >>
followVars == << selected_campaigns, delay_period, change_follow_up_percentage,
                 running_add_followups, successful_campaigns, failed_campaigns,
                 runner_i, runs, api_log >>
dupVars == << dup_expected, dup_calls >>

classifyVars == << raw_leads, blocklisted_industries, whitelisted_industries,
                   whitelisted_areas, cls_pc, batch_idx, leads_to_remove, task, model_calls >>
deleteVars == << smartlead_campaign_id, email_lead_ids, email_lead_map_ids, auth_token,
                 remove_calls >>

filterVars == << campaign_mappings, selected_campaign_id, selected_campaign_name,
                 ss_leads_to_remove, lead_details, filtered_blob_url, removing, filter_pc,
                 filter_run, blob_uploads, lead_fetches, remove_clicks >>

vars == << pageVars, platformVars, followVars, dupVars, classifyVars, deleteVars,
           filterVars >>

None == << >>
Some(v) == << v >>

Min(a, b) == IF a <= b THEN a ELSE b

\* Python truthiness of an Optional[int] / Optional[str] (`if x:`)
TruthyInt(o) == o # None /\ o[1] # 0
TruthyStr(o) == o # None /\ o[1] # ""

Range(s) == { s[i] : i \in DOMAIN s }

(***************************************************************************)
(* Lead pagination                                                         *)
(***************************************************************************)
MaxCampaignLeads == 3   \* leads mapped to the campaign
MaxLimit == 2           \* largest page the platform hands out
MaxFailures == 2        \* failed page requests in one call (the code has no cap)

LeadCategories == {1, 2}
EventTimes == { None, Some(""), Some("2025-01-01") }
CategoryArgs == { None, Some(1), Some(2) }

\* What the platform answers to GET campaigns/{id}/leads with the given
\* query parameters: the filtered lead list cut at offset, at most `limit` long.
LeadMatches(lead, params) ==
    /\ (params.event_time_gt # None => lead.recent)
    /\ (params.lead_category_id # None => lead.cat = params.lead_category_id[1])

PlatformLeads(params) ==
    LET Test(l) == LeadMatches(l, params) IN SelectSeq(campaign_leads, Test)

GetCampaignLeadsResponse(params, limit) ==
    LET all == PlatformLeads(params)
        off == IF params.offset = None THEN 0 ELSE params.offset[1]
    IN  [ total_leads |-> Len(all),
          offset      |-> off,
          limit       |-> limit,
          data        |-> SubSeq(all, off + 1, Min(off + limit, Len(all))) ]

\* index.py:77-81
FirstPageParams ==
    [ offset           |-> None,
      event_time_gt    |-> IF TruthyStr(event_time) THEN event_time ELSE None,
      lead_category_id |-> IF TruthyInt(lead_category_id) THEN lead_category_id ELSE None ]

\* Variant of OffsetParams: the offset counts the requests sent
OffsetParams_ByRequest ==
    [ offset           |-> Some(Len(requests)),
      event_time_gt    |-> IF TruthyStr(event_time) THEN event_time ELSE None,
      lead_category_id |-> None ]

\* index.py:100-102
OffsetParams ==
    [ offset           |-> Some(Len(leads)),
      event_time_gt    |-> IF TruthyStr(event_time) THEN event_time ELSE None,
      lead_category_id |-> None ]

PageFailures == Cardinality({ i \in DOMAIN requests : ~requests[i].ok })

\* The request log holds MaxRequests requests, as many as a call on an
\* unchanging campaign can send; once it is full its last entry stands for the
\* latest request and `repeat` flips with every further one
MaxRequests == MaxCampaignLeads + MaxFailures + 1
LogRequest(r) ==
    IF Len(requests) < MaxRequests THEN Append(requests, r)
    ELSE [ requests EXCEPT ![MaxRequests] = [ r EXCEPT !.repeat = ~requests[MaxRequests].repeat ] ]

\* Variant of FirstPage: the failure of the first request propagates
FirstPage_Propagates ==
    /\ page_pc = "first"
    /\ \/ \E limit \in 1..MaxLimit :
            LET first_page == GetCampaignLeadsResponse(FirstPageParams, limit) IN
            /\ total_leads' = Some(first_page.total_leads)
            /\ leads' = leads \o first_page.data
            /\ requests' = Append(requests, [ params |-> FirstPageParams, ok |-> TRUE, repeat |-> FALSE ])
            /\ page_pc' = "loop"
       \/ /\ requests' = Append(requests, [ params |-> FirstPageParams, ok |-> FALSE, repeat |-> FALSE ])
          /\ page_pc' = "raised"
          /\ UNCHANGED << leads, total_leads >>
    /\ UNCHANGED << campaign_leads, lead_category_id, event_time >>
    /\ UNCHANGED << platformVars, followVars, dupVars, classifyVars, deleteVars >>
    /\ UNCHANGED filterVars

\* index.py:83-94
FirstPage ==
    /\ page_pc = "first"
    /\ \/ \E limit \in 1..MaxLimit :
            LET first_page == GetCampaignLeadsResponse(FirstPageParams, limit) IN
            /\ total_leads' = Some(first_page.total_leads)
            /\ leads' = leads \o first_page.data
            /\ requests' = Append(requests, [ params |-> FirstPageParams, ok |-> TRUE, repeat |-> FALSE ])
            /\ page_pc' = "loop"
       \/ /\ requests' = Append(requests, [ params |-> FirstPageParams, ok |-> FALSE, repeat |-> FALSE ])
          /\ page_pc' = "returned"
          /\ UNCHANGED << leads, total_leads >>
    /\ UNCHANGED << campaign_leads, lead_category_id, event_time >>
    /\ UNCHANGED << platformVars, followVars, dupVars, classifyVars, deleteVars >>
    /\ UNCHANGED filterVars

\* index.py:97-117, one iteration of the while loop
NextPage ==
    /\ page_pc = "loop"
    /\ Len(leads) < total_leads[1]
    /\ \/ \E limit \in 1..MaxLimit :
            LET page == GetCampaignLeadsResponse(OffsetParams, limit) IN
            /\ leads' = leads \o page.data
            /\ requests' = LogRequest([ params |-> OffsetParams, ok |-> TRUE, repeat |-> FALSE ])
       \/ /\ PageFailures < MaxFailures /\ Len(requests) < MaxRequests
          /\ requests' = LogRequest([ params |-> OffsetParams, ok |-> FALSE, repeat |-> FALSE ])
          /\ UNCHANGED leads
    /\ UNCHANGED << campaign_leads, lead_category_id, event_time, total_leads, page_pc >>
    /\ UNCHANGED << platformVars, followVars, dupVars, classifyVars, deleteVars >>
    /\ UNCHANGED filterVars

\* index.py:97 (loop exit) and 119
ReturnLeads ==
    /\ page_pc = "loop"
    /\ ~(Len(leads) < total_leads[1])
    /\ page_pc' = "returned"
    /\ UNCHANGED << campaign_leads, lead_category_id, event_time, leads, total_leads,
                    requests >>
    /\ UNCHANGED << platformVars, followVars, dupVars, classifyVars, deleteVars >>
    /\ UNCHANGED filterVars

\* Platform side: a lead is removed from the campaign (by another user or by
\* the deletion of the filter page) while the pages are being fetched
LeadLeavesCampaign ==
    /\ page_pc = "loop"
    /\ \E i \in DOMAIN campaign_leads :
         campaign_leads' = SubSeq(campaign_leads, 1, i - 1)
                             \o SubSeq(campaign_leads, i + 1, Len(campaign_leads))
    /\ UNCHANGED << lead_category_id, event_time, leads, total_leads, page_pc, requests >>
    /\ UNCHANGED << platformVars, followVars, dupVars, classifyVars, deleteVars >>
    /\ UNCHANGED filterVars

(***************************************************************************)
(* Sequences on the platform and the Sequence Duplicator                   *)
(* (pages/va/add_follow_ups.py, add_follow_ups_to_campaign)                *)
(***************************************************************************)
Campaigns == {1, 2}

\* `if seq.sequence_variants:` -- None and the empty list are both falsy
TruthyList(o) == o # None /\ o[1] # << >>

\* add_follow_ups.py:49-55 (keep_id) and 84-90 (id=None)
VariantInput(v, keep_id) ==
    [ id                              |-> IF keep_id THEN Some(v.id) ELSE None,
      subject                         |-> v.subject,
      email_body                      |-> v.email_body,
      variant_label                   |-> v.variant_label,
      variant_distribution_percentage |-> v.variant_distribution_percentage ]

VariantInputs(seq, keep_id) ==
    IF TruthyList(seq.sequence_variants)
    THEN Some([ j \in DOMAIN seq.sequence_variants[1] |->
                  VariantInput(seq.sequence_variants[1][j], keep_id) ])
    ELSE None

\* add_follow_ups.py:45-69
OriginalInput(seq) ==
    [ id                |-> Some(seq.id),
      seq_number        |-> seq.seq_number,
      subject           |-> Some(seq.subject),
      email_body        |-> Some(seq.email_body),
      seq_delay_details |-> [ delay_in_days |-> seq.seq_delay_details.delayInDays ],
      seq_variants      |-> VariantInputs(seq, TRUE) ]

OriginalInputs(seqs) == [ p \in DOMAIN seqs |-> OriginalInput(seqs[p]) ]

\* Variant of NewSeqNumber: clones are numbered from 1 again
NewSeqNumber_FromIndex(seqs, index) == index + 1

\* Variant of NewSeqNumber: numbering restarts at the current length
NewSeqNumber_FromLength(seqs, index) == Len(seqs) + index

\* add_follow_ups.py:75; index is the 0-based position of enumerate()
NewSeqNumber(seqs, index) == Len(seqs) + index + 1

\* Variant of NewDelay: every clone takes the supplied delay
NewDelay_Always(seq, index, delay) == delay

\* add_follow_ups.py:77-79
NewDelay(seq, index, delay) ==
    IF index = 0 THEN delay ELSE seq.seq_delay_details.delayInDays

\* add_follow_ups.py:73-103
CloneInput(seqs, index, delay) ==
    LET seq == seqs[index + 1] IN
    [ id                |-> None,
      seq_number        |-> NewSeqNumber(seqs, index),
      subject           |-> Some(seq.subject),
      email_body        |-> Some(seq.email_body),
      seq_delay_details |-> [ delay_in_days |-> NewDelay(seq, index, delay) ],
      seq_variants      |-> VariantInputs(seq, FALSE) ]

Clones(seqs, delay) == [ p \in DOMAIN seqs |-> CloneInput(seqs, p - 1, delay) ]

\* add_follow_ups.py:105
InputSequences(seqs, delay) == OriginalInputs(seqs) \o Clones(seqs, delay)

\* Variant of NothingToDo: strict comparison
NothingToDo_Strict(seqs, expected_sequence_length) ==
    /\ expected_sequence_length # None
    /\ Len(seqs) > expected_sequence_length[1]

\* add_follow_ups.py:37-41
NothingToDo(seqs, expected_sequence_length) ==
    /\ expected_sequence_length # None
    /\ Len(seqs) >= expected_sequence_length[1]

\* The platform's handling of POST campaigns/{id}/sequences: an item that
\* carries an id updates the sequence of that id, an item without one is
\* created as a new sequence (with new variant records).
PlatformVariants(item, seq_id, old) ==
    IF item.seq_variants = None THEN old
    ELSE Some([ j \in DOMAIN item.seq_variants[1] |->
                  LET v == item.seq_variants[1][j] IN
                  [ id                              |-> IF v.id = None THEN 10 * seq_id + j ELSE v.id[1],
                    subject                         |-> v.subject,
                    email_body                      |-> v.email_body,
                    variant_label                   |-> v.variant_label,
                    variant_distribution_percentage |-> v.variant_distribution_percentage ] ])

PlatformSequence(item, seq_id, old_variants) ==
    [ id                |-> seq_id,
      seq_number        |-> item.seq_number,
      subject           |-> item.subject[1],
      email_body        |-> item.email_body[1],
      seq_delay_details |-> [ delayInDays |-> item.seq_delay_details.delay_in_days ],
      sequence_variants |-> PlatformVariants(item, seq_id, old_variants) ]

PlatformAddSequences(existing, payload, first_new_id) ==
    LET IsNew(item) == item.id = None
        new_items == SelectSeq(payload, IsNew)
        updated == [ p \in DOMAIN existing |->
                       LET hits == { k \in DOMAIN payload : payload[k].id = Some(existing[p].id) } IN
                       IF hits = {} THEN existing[p]
                       ELSE PlatformSequence(payload[CHOOSE k \in hits : TRUE], existing[p].id,
                                             existing[p].sequence_variants) ]
        created == [ j \in DOMAIN new_items |->
                       PlatformSequence(new_items[j], first_new_id + j - 1, None) ]
    IN  updated \o created

CreatedCount(payload) == Cardinality({ k \in DOMAIN payload : payload[k].id = None })

\* add_follow_ups_to_campaign as a whole (add_follow_ups.py:29-115) for given
\* outcomes of its two platform requests.  `calls` lists the client calls it
\* makes, `raised` tells whether it ends with an exception, `after` is the
\* campaign's sequence list on the platform when it ends.
AddFollowUpsToCampaign(cid, delay, expected_sequence_length, get_ok, add_ok) ==
    LET seqs == sequences[cid]
        get_call == [ op |-> "get_campaign_sequences", cid |-> cid, sent |-> TRUE,
                      ok |-> get_ok, arg |-> << >> ]
        payload == InputSequences(seqs, delay)
        add_call == [ op |-> "add_sequences_to_campaign", cid |-> cid, sent |-> TRUE,
                      ok |-> add_ok, arg |-> payload ]
    IN  IF ~get_ok
        THEN [ raised |-> TRUE, calls |-> << get_call >>, after |-> seqs, created |-> 0 ]
        ELSE IF NothingToDo(seqs, expected_sequence_length)
        THEN [ raised |-> FALSE, calls |-> << get_call >>, after |-> seqs, created |-> 0 ]
        ELSE IF ~add_ok
        THEN [ raised |-> TRUE, calls |-> << get_call, add_call >>, after |-> seqs, created |-> 0 ]
        ELSE [ raised |-> FALSE, calls |-> << get_call, add_call >>,
               after |-> PlatformAddSequences(seqs, payload, platform_next_id),
               created |-> CreatedCount(payload) ]

MaxSequences == 3       \* sequences of a campaign before any duplication
MaxDupCalls == 2        \* direct calls of the duplicator in one behaviour

DelayPeriods == {0, 5}
\* expected_sequence_length: absent, already met by every campaign, and the
\* largest campaign's length before and after one duplication
ExpectedLengths == { None, Some(0), Some(MaxSequences), Some(2 * MaxSequences) }

\* A direct call add_follow_ups_to_campaign(smartlead_campaign_id=1, ...)
CallAddFollowUps ==
    /\ Len(dup_calls) < MaxDupCalls
    /\ \E get_ok \in BOOLEAN, add_ok \in BOOLEAN :
         LET r == AddFollowUpsToCampaign(1, delay_period, dup_expected, get_ok, add_ok) IN
         /\ sequences' = [ sequences EXCEPT ![1] = r.after ]
         /\ platform_next_id' = platform_next_id + r.created
         /\ dup_calls' = Append(dup_calls,
                [ expected |-> dup_expected, before |-> sequences[1], raised |-> r.raised,
                  calls |-> r.calls ])
    /\ UNCHANGED << follow_up_percentage, dup_expected, pageVars, followVars, classifyVars,
                    deleteVars >>
    /\ UNCHANGED filterVars

(***************************************************************************)
(* Follow-up percentage (clients/smartlead/internal/index.py)              *)
(***************************************************************************)
\* Keyword-only parameters of query_smartlead_internal_graphql_endpoint
\* (internal/index.py:104-111); only `method` has no default.
GraphqlEndpointParameters == { "method", "headers", "body", "query_params", "timeout" }
GraphqlEndpointRequired == { "method" }

\* Keywords of the call at internal/index.py:47-51
UpdateCallKeywords == { "query", "variables", "operation_name" }

\* Python binds a call to a signature only if every keyword names a parameter
\* and every parameter without a default is given; otherwise TypeError.
CallBinds(keywords, parameters, required) ==
    /\ keywords \subseteq parameters
    /\ required \subseteq keywords

\* update_smartlead_campaign_follow_up_percentage (internal/index.py:25-51).
\* `sent` tells whether the mutation reached the platform; `returns` is the
\* function's return value (the body has no return statement).
UpdateFollowUpPercentage(cid, percentage, gql_ok) ==
    IF ~CallBinds(UpdateCallKeywords, GraphqlEndpointParameters, GraphqlEndpointRequired)
    THEN [ raised |-> TRUE, error |-> "TypeError", sent |-> FALSE, returns |-> None ]
    ELSE IF ~gql_ok
    THEN [ raised |-> TRUE, error |-> "SmartleadGraphQLError", sent |-> TRUE, returns |-> None ]
    ELSE [ raised |-> FALSE, error |-> "", sent |-> TRUE, returns |-> None ]

(***************************************************************************)
(* Follow-up workflow (pages/va/add_follow_ups.py:118-229)                 *)
(***************************************************************************)
MaxRuns == 2            \* clicks on "Add Follow-ups" that start a run

FollowUpTarget == 90
SentThresholdPercent == 70

\* Statistics the platform may report: (campaign_lead_stats.total, unique_sent_count)
StatsValues == { [ total |-> 0, unique_sent_count |-> 0 ],
                 [ total |-> 0, unique_sent_count |-> 5 ],
                 [ total |-> 100, unique_sent_count |-> 69 ],
                 [ total |-> 100, unique_sent_count |-> 70 ] }

\* Variant of SentRatioReached: strict comparison
SentRatioReached_Strict(total, unique_sent_count) ==
    total # 0 /\ 100 * unique_sent_count > SentThresholdPercent * total

\* add_follow_ups.py:182-186.  sent_ratio >= 0.70 compares two doubles; for
\* counts below 10^14 the rounded quotient is >= the double 0.70 exactly when
\* unique_sent_count / total_leads >= 7/10, which is stated on integers here.
SentRatioReached(total, unique_sent_count) ==
    total # 0 /\ 100 * unique_sent_count >= SentThresholdPercent * total

GateHolds(stats) ==
    stats.total = 0 \/ SentRatioReached(stats.total, stats.unique_sent_count)

\* add_follow_ups.py:176-189: the optional bump, for a given outcome of the
\* statistics request (None: it failed) and of the mutation request.
BumpFollowUpPercentage(cid, percentage, stats_out, gql_ok) ==
    LET stats_call == [ op |-> "get_campaign_statistics", cid |-> cid, sent |-> TRUE,
                        ok |-> stats_out # None, arg |-> stats_out ]
        u == UpdateFollowUpPercentage(cid, percentage, gql_ok)
        update_call == [ op |-> "update_smartlead_campaign_follow_up_percentage", cid |-> cid,
                         sent |-> u.sent, ok |-> ~u.raised,
                         arg |-> [ follow_up_percentage |-> percentage, returns |-> u.returns ] ]
    IN  IF ~change_follow_up_percentage
        THEN [ raised |-> FALSE, error |-> "", calls |-> << >>, updated |-> FALSE,
               percentage |-> percentage ]
        ELSE IF stats_out = None
        THEN [ raised |-> TRUE, error |-> "RuntimeError", calls |-> << stats_call >>,
               updated |-> FALSE, percentage |-> percentage ]
        ELSE IF GateHolds(stats_out[1])
        THEN [ raised |-> u.raised, error |-> u.error, calls |-> << stats_call, update_call >>,
               updated |-> u.sent /\ ~u.raised, percentage |-> percentage ]
        ELSE [ raised |-> FALSE, error |-> "", calls |-> << stats_call >>, updated |-> FALSE,
               percentage |-> percentage ]

\* Variant of WorkflowExpectedLength: the workflow expects two sequences
WorkflowExpectedLength_Two == Some(2)

\* add_follow_ups.py:192-195: the runner passes no expected_sequence_length,
\* which leaves the parameter at its default
WorkflowExpectedLength == None

\* Ordered selections of distinct campaigns (st.multiselect)
Selections ==
    { sel \in UNION { [ 1..n -> Campaigns ] : n \in 0..Cardinality(Campaigns) } :
        \A a, b \in DOMAIN sel : a # b => sel[a] # sel[b] }

\* add_follow_ups.py:127-160: the widgets' values are stored and the button is handled
ClickAddFollowUps ==
    /\ ~running_add_followups
    /\ runs < MaxRuns
    /\ \E sel \in Selections, delay \in DelayPeriods, change \in BOOLEAN :
         /\ selected_campaigns' = sel
         /\ delay_period' = delay
         /\ change_follow_up_percentage' = change
         /\ IF sel = << >>
            THEN /\ runner_i' = 0
                 /\ api_log' = << >>
                 /\ UNCHANGED << successful_campaigns, failed_campaigns,
                                 running_add_followups, runs >>
            ELSE /\ successful_campaigns' = << >>
                 /\ failed_campaigns' = << >>
                 /\ running_add_followups' = TRUE
                 /\ runner_i' = 0
                 /\ runs' = runs + 1
                 /\ api_log' = << >>
    /\ UNCHANGED << platformVars, pageVars, dupVars, classifyVars, deleteVars >>
    /\ UNCHANGED filterVars

\* Variant of AppendFailed: the failure is swallowed
AppendFailed_Dropped(rows, cid, error) == rows

\* add_follow_ups.py:205-213: the except branch records the campaign as failed
AppendFailed(rows, cid, error) == Append(rows, [ campaign_id |-> cid, error |-> error ])

\* add_follow_ups.py:169-216: one iteration of the runner loop
ProcessCampaign ==
    /\ running_add_followups
    /\ runner_i < Len(selected_campaigns)
    /\ LET cid == selected_campaigns[runner_i + 1] IN
       \E stats_out \in { None } \cup { Some(st) : st \in StatsValues },
          gql_ok \in BOOLEAN, get_ok \in BOOLEAN, add_ok \in BOOLEAN :
         LET bump == BumpFollowUpPercentage(cid, FollowUpTarget, stats_out, gql_ok)
             dup == AddFollowUpsToCampaign(cid, delay_period, WorkflowExpectedLength,
                                           get_ok, add_ok)
         IN  /\ IF bump.raised
                THEN /\ failed_campaigns' = AppendFailed(failed_campaigns, cid, bump.error)
                     /\ api_log' = api_log \o bump.calls
                     /\ UNCHANGED << successful_campaigns, sequences, platform_next_id >>
                ELSE /\ api_log' = api_log \o bump.calls \o dup.calls
                     /\ sequences' = [ sequences EXCEPT ![cid] = dup.after ]
                     /\ platform_next_id' = platform_next_id + dup.created
                     /\ IF dup.raised
                        THEN /\ failed_campaigns' = AppendFailed(failed_campaigns, cid,
                                                                  "RuntimeError")
                             /\ UNCHANGED successful_campaigns
                        ELSE /\ successful_campaigns' = Append(successful_campaigns,
                                                   [ campaign_id |-> cid, error |-> "N/A" ])
                             /\ UNCHANGED failed_campaigns
             /\ follow_up_percentage' =
                  IF bump.updated THEN [ follow_up_percentage EXCEPT ![cid] = bump.percentage ]
                  ELSE follow_up_percentage
    /\ runner_i' = runner_i + 1
    /\ UNCHANGED << selected_campaigns, delay_period, change_follow_up_percentage,
                    running_add_followups, runs, pageVars, dupVars, classifyVars,
                    deleteVars >>
    /\ UNCHANGED filterVars

\* add_follow_ups.py:219
FinishRun ==
    /\ running_add_followups
    /\ runner_i = Len(selected_campaigns)
    /\ running_add_followups' = FALSE
    /\ UNCHANGED << selected_campaigns, delay_period, change_follow_up_percentage,
                    successful_campaigns, failed_campaigns, runner_i, runs, api_log,
                    platformVars, pageVars, dupVars, classifyVars, deleteVars >>
    /\ UNCHANGED filterVars

(***************************************************************************)
(* Lead Classifier (pages/va/filter_leads_from_campaign.py:47-135)         *)
(***************************************************************************)
ChunkSize == 2          \* stands for the batch size 50 of process_leads
MaxRawLeads == 3        \* uploaded leads

\* Variant of ChunkList: everything in one batch
ChunkList_Whole(lst, chunk_size) == IF lst = << >> THEN << >> ELSE << lst >>

\* common/utils.py:27-29
ChunkList(lst, chunk_size) ==
    [ b \in 1..((Len(lst) + chunk_size - 1) \div chunk_size) |->
        SubSeq(lst, (b - 1) * chunk_size + 1, Min(b * chunk_size, Len(lst))) ]

\* Strings the model answers with are sequences of characters
Whitespace == { " ", "\n", "\t" }

RECURSIVE LStrip(_)
LStrip(s) == IF s # << >> /\ Head(s) \in Whitespace THEN LStrip(Tail(s)) ELSE s

RECURSIVE RStrip(_)
RStrip(s) ==
    IF s # << >> /\ s[Len(s)] \in Whitespace THEN RStrip(SubSeq(s, 1, Len(s) - 1)) ELSE s

\* str.strip()
Strip(s) == RStrip(LStrip(s))

LowerChar(c) ==
    CASE c = "N" -> "n" [] c = "O" -> "o" [] c = "Y" -> "y" [] c = "E" -> "e"
      [] c = "S" -> "s" [] OTHER -> c

\* Variant of Lower: the answer is compared as the model wrote it
Lower_Missing(s) == s

\* str.lower()
Lower(s) == [ i \in DOMAIN s |-> LowerChar(s[i]) ]

\* common/utils.py:7-17: what get_gpt_answer returns for the model's text
GetGptAnswer(content) == Lower(Strip(content))

Predicates == << "area", "blocklist", "whitelist" >>

\* The early return of each predicate (filter_leads_from_campaign.py:48, 65, 82):
\* no model call when either side is None or empty
NeedsCall(predicate, lead) ==
    CASE predicate = "area"      -> ~(~TruthyStr(lead.Location) \/ whitelisted_areas = "")
      [] predicate = "blocklist" -> ~(~TruthyStr(lead.informalIndustry) \/ blocklisted_industries = "")
      [] predicate = "whitelist" -> ~(~TruthyStr(lead.informalIndustry) \/ whitelisted_industries = "")

\* The return expression of each predicate (filter_leads_from_campaign.py:59, 76, 93)
\* for the text the model produced
AnswerMeansRemove(predicate, content) ==
    LET ans == GetGptAnswer(content)
        text == Lower(Strip(IF ans = << >> THEN << >> ELSE ans))
    IN  CASE predicate = "area"      -> text = << "n", "o" >>
          [] predicate = "blocklist" -> text = << "y", "e", "s" >>
          [] predicate = "whitelist" -> text = << "n", "o" >>

\* check_one (filter_leads_from_campaign.py:114-123) from its k-th predicate
\* on: the predicate whose model call it awaits next, or "keep" (return None)
RECURSIVE NextAwait(_, _)
NextAwait(lead, k) ==
    IF k > Len(Predicates) THEN "keep"
    ELSE IF NeedsCall(Predicates[k], lead) THEN Predicates[k]
    ELSE NextAwait(lead, k + 1)

PredicateIndex(predicate) == CHOOSE k \in DOMAIN Predicates : Predicates[k] = predicate

\* Variant of AfterPredicate: all predicates are evaluated before deciding
AfterPredicate_NoShortCircuit(lead, k, is_true) ==
    IF is_true /\ NextAwait(lead, k + 1) = "keep" THEN "remove" ELSE NextAwait(lead, k + 1)

\* check_one after its k-th predicate returned is_true
AfterPredicate(lead, k, is_true) ==
    IF is_true THEN "remove" ELSE NextAwait(lead, k + 1)

Awaiting(i) == task[i] \in Range(Predicates)
Finished(i) == task[i] \in { "remove", "keep" }

Batches == ChunkList([ i \in DOMAIN raw_leads |-> i ], ChunkSize)
CurrentBatch == Range(Batches[batch_idx])

\* filter_leads_from_campaign.py:109-125: the next batch is taken and its
\* check_one coroutines run up to their first model call
StartBatch ==
    /\ cls_pc = "loop"
    /\ batch_idx < Len(Batches)
    /\ batch_idx' = batch_idx + 1
    /\ task' = [ i \in DOMAIN task |->
                   IF i \in Range(Batches[batch_idx + 1]) THEN NextAwait(raw_leads[i], 1)
                   ELSE task[i] ]
    /\ cls_pc' = "gather"
    /\ UNCHANGED << raw_leads, blocklisted_industries, whitelisted_industries,
                    whitelisted_areas, leads_to_remove, model_calls >>
    /\ UNCHANGED << pageVars, platformVars, followVars, dupVars, deleteVars >>
    /\ UNCHANGED filterVars

RawAnswers == { << " ", "N", "o", "\n" >>, << "Y", "E", "S" >>, << "n", "o", "." >> }

\* One model call of a lead of the running batch completes with an answer
ModelAnswers ==
    /\ cls_pc = "gather"
    /\ \E i \in CurrentBatch, content \in RawAnswers :
         /\ Awaiting(i)
         /\ model_calls' = [ model_calls EXCEPT ![i] =
                Append(@, [ predicate |-> task[i], failed |-> FALSE, content |-> content ]) ]
         /\ task' = [ task EXCEPT ![i] =
                AfterPredicate(raw_leads[i], PredicateIndex(task[i]),
                               AnswerMeansRemove(task[i], content)) ]
    /\ UNCHANGED << raw_leads, blocklisted_industries, whitelisted_industries,
                    whitelisted_areas, cls_pc, batch_idx, leads_to_remove >>
    /\ UNCHANGED << pageVars, platformVars, followVars, dupVars, deleteVars >>
    /\ UNCHANGED filterVars

\* One model call fails: gather re-raises and process_leads ends with the exception
ModelCallFails ==
    /\ cls_pc = "gather"
    /\ \E i \in CurrentBatch :
         /\ Awaiting(i)
         /\ model_calls' = [ model_calls EXCEPT ![i] =
                Append(@, [ predicate |-> task[i], failed |-> TRUE, content |-> << >> ]) ]
         /\ task' = [ task EXCEPT ![i] = "failed" ]
    /\ cls_pc' = "raised"
    /\ UNCHANGED << raw_leads, blocklisted_industries, whitelisted_industries,
                    whitelisted_areas, batch_idx, leads_to_remove >>
    /\ UNCHANGED << pageVars, platformVars, followVars, dupVars, deleteVars >>
    /\ UNCHANGED filterVars

\* filter_leads_from_campaign.py:125-127: gather returns, the batch's flagged
\* leads are appended in batch order
FinishBatch ==
    /\ cls_pc = "gather"
    /\ \A i \in CurrentBatch : Finished(i)
    /\ LET Flagged(i) == task[i] = "remove" IN
       leads_to_remove' = leads_to_remove \o SelectSeq(Batches[batch_idx], Flagged)
    /\ cls_pc' = "loop"
    /\ UNCHANGED << raw_leads, blocklisted_industries, whitelisted_industries,
                    whitelisted_areas, batch_idx, task, model_calls >>
    /\ UNCHANGED << pageVars, platformVars, followVars, dupVars, deleteVars >>
    /\ UNCHANGED filterVars

\* filter_leads_from_campaign.py:132-135
ReturnLeadsToRemove ==
    /\ cls_pc = "loop"
    /\ batch_idx = Len(Batches)
    /\ cls_pc' = "returned"
    /\ UNCHANGED << raw_leads, blocklisted_industries, whitelisted_industries,
                    whitelisted_areas, batch_idx, leads_to_remove, task, model_calls >>
    /\ UNCHANGED << pageVars, platformVars, followVars, dupVars, deleteVars >>
    /\ UNCHANGED filterVars

(***************************************************************************)
(* Lead deletion (clients/smartlead/internal/index.py:6-22, 54-97)         *)
(***************************************************************************)
MaxIds == 3             \* longest id list passed to the deletion

\* query_smartlead_internal_rest_endpoint (internal/index.py:54-97): the
\* events are the read of the token and, if any, the request sent
QueryInternalRestEndpoint(endpoint, method, body, token, http_ok) ==
    LET read == [ event |-> "read_token", method |-> "", endpoint |-> "", body |-> << >> ]
        post == [ event |-> "request", method |-> method, endpoint |-> endpoint,
                  body |-> << body >> ]
    IN  IF ~TruthyStr(token)
        THEN [ raised |-> TRUE, error |-> "RuntimeError", events |-> << read >> ]
        ELSE IF ~http_ok
        THEN [ raised |-> TRUE, error |-> "RuntimeError", events |-> << read, post >> ]
        ELSE [ raised |-> FALSE, error |-> "", events |-> << read, post >> ]

\* Variant of RemoveMultipleLeadsFromCampaign: no length check
RemoveMultipleLeads_NoLengthCheck(campaign_id, lead_ids, lead_map_ids, token, http_ok) ==
    QueryInternalRestEndpoint(
        "email-campaigns/delete-email-campaign-multiple-leads", "POST",
        [ campaignId |-> campaign_id, emailLeadIds |-> lead_ids,
          emailLeadMapIds |-> lead_map_ids ],
        token, http_ok)

\* remove_multiple_leads_from_campaign (internal/index.py:6-22)
RemoveMultipleLeadsFromCampaign(campaign_id, lead_ids, lead_map_ids, token, http_ok) ==
    IF Len(lead_ids) # Len(lead_map_ids)
    THEN [ raised |-> TRUE, error |-> "ValueError", events |-> << >> ]
    ELSE QueryInternalRestEndpoint(
            "email-campaigns/delete-email-campaign-multiple-leads", "POST",
            [ campaignId |-> campaign_id, emailLeadIds |-> lead_ids,
              emailLeadMapIds |-> lead_map_ids ],
            token, http_ok)

MaxRemoveCalls == 1     \* direct calls of the deletion in one behaviour

\* A direct call remove_multiple_leads_from_campaign(...)
CallRemoveMultipleLeads ==
    /\ Len(remove_calls) < MaxRemoveCalls
    /\ \E http_ok \in BOOLEAN :
         LET r == RemoveMultipleLeadsFromCampaign(smartlead_campaign_id, email_lead_ids,
                                                  email_lead_map_ids, auth_token, http_ok)
         IN  remove_calls' = Append(remove_calls,
                [ campaign_id |-> smartlead_campaign_id, lead_ids |-> email_lead_ids,
                  lead_map_ids |-> email_lead_map_ids, token |-> auth_token,
                  raised |-> r.raised, error |-> r.error, events |-> r.events ])
    /\ UNCHANGED << smartlead_campaign_id, email_lead_ids, email_lead_map_ids, auth_token >>
    /\ UNCHANGED << pageVars, platformVars, followVars, dupVars, classifyVars >>
    /\ UNCHANGED filterVars

(***************************************************************************)
(* Filter-leads page (pages/va/filter_leads_from_campaign.py:138-325)      *)
(***************************************************************************)
MaxFilterRuns == 2      \* clicks on "Filter and Upload Leads"
MaxRemoveClicks == 1    \* clicks on the remove confirmation

\* str(int) for the campaign ids in use
StrOfInt(n) == CASE n = 1 -> "1" [] n = 2 -> "2" [] OTHER -> "?"

\* campaign_options[cid] (filter_leads_from_campaign.py:197, 220)
CampaignName(cid) == CASE cid = 1 -> "Alpha" [] cid = 2 -> "Beta" [] OTHER -> ""

\* upload_filtered_leads_to_blob (filter_leads_from_campaign.py:22-44): the
\* blob is named after the campaign label
BlobUrl(campaign_label) == << "filtered-leads", campaign_label >>

\* get_leads_by_campaign_id_with_pagination(campaign_id=cid) as the page calls
\* it, without filters: the campaign's mappings in platform order, or the
\* empty list when the first page request fails (index.py:92-94)
GetLeadsOfCampaign(cid, first_ok) == IF first_ok THEN campaign_mappings[cid] ELSE << >>

\* Variant of LeadDetails: every fetched mapping is taken
LeadDetails_Unmatched(fetched, flagged) ==
    [ i \in DOMAIN fetched |->
        [ leadId |-> fetched[i].lead.id, leadMappingId |-> fetched[i].campaign_lead_map_id ] ]

\* filter_leads_from_campaign.py:280-284; ltr.get("Email") is None for a row
\* without that column
LeadDetails(fetched, flagged) ==
    LET Matches(m) == \E k \in DOMAIN flagged : flagged[k].Email = Some(m.lead.email)
        matched == SelectSeq(fetched, Matches)
    IN  [ i \in DOMAIN matched |->
            [ leadId |-> matched[i].lead.id,
              leadMappingId |-> matched[i].campaign_lead_map_id ] ]

\* The session values and the logs as a starting handler finds them
RunStart(n) ==
    [ runs |-> n, leads_to_remove |-> ss_leads_to_remove, lead_details |-> lead_details,
      filtered_blob_url |-> filtered_blob_url, uploads |-> Len(blob_uploads),
      fetches |-> Len(lead_fetches), ended |-> "" ]

\* filter_leads_from_campaign.py:210-220: the user picks another campaign and
\* the script reruns
SelectCampaign ==
    /\ filter_pc = "idle"
    /\ ~removing
    /\ \E cid \in Campaigns :
         /\ selected_campaign_id # Some(cid)
         /\ selected_campaign_id' = Some(cid)
         /\ selected_campaign_name' = CampaignName(cid)
    /\ UNCHANGED << campaign_mappings, ss_leads_to_remove, lead_details, filtered_blob_url,
                    removing, filter_pc, filter_run, blob_uploads, lead_fetches,
                    remove_clicks >>
    /\ UNCHANGED << pageVars, platformVars, followVars, dupVars, classifyVars, deleteVars >>

\* filter_leads_from_campaign.py:244-253: the button is clicked and
\* process_leads starts on the uploaded rows
ClickFilterAndUpload ==
    /\ filter_pc = "idle"
    /\ ~removing
    /\ filter_run.runs < MaxFilterRuns
    /\ filter_pc' = "filtering"
    /\ filter_run' = RunStart(filter_run.runs + 1)
    /\ cls_pc' = "loop"
    /\ batch_idx' = 0
    /\ leads_to_remove' = << >>
    /\ task' = [ i \in DOMAIN raw_leads |-> "new" ]
    /\ model_calls' = [ i \in DOMAIN raw_leads |-> << >> ]
    /\ UNCHANGED << raw_leads, blocklisted_industries, whitelisted_industries,
                    whitelisted_areas >>
    /\ UNCHANGED << campaign_mappings, selected_campaign_id, selected_campaign_name,
                    ss_leads_to_remove, lead_details, filtered_blob_url, removing,
                    blob_uploads, lead_fetches, remove_clicks >>
    /\ UNCHANGED << pageVars, platformVars, followVars, dupVars, deleteVars >>

\* The rows process_leads returned
FlaggedRows == [ k \in DOMAIN leads_to_remove |-> raw_leads[leads_to_remove[k]] ]

\* process_leads is over: its locals are gone
ProcessLeadsEnds ==
    /\ cls_pc' = "idle"
    /\ batch_idx' = 0
    /\ leads_to_remove' = << >>
    /\ task' = [ i \in DOMAIN raw_leads |-> "new" ]
    /\ model_calls' = [ i \in DOMAIN raw_leads |-> << >> ]
    /\ UNCHANGED << raw_leads, blocklisted_industries, whitelisted_industries,
                    whitelisted_areas >>

\* filter_leads_from_campaign.py:255-287: process_leads returned
FilterAndUploadContinues ==
    /\ filter_pc = "filtering"
    /\ cls_pc = "returned"
    /\ filter_pc' = "idle"
    /\ IF FlaggedRows = << >>
       THEN /\ ss_leads_to_remove' = << >>
            /\ lead_details' = << >>
            /\ filtered_blob_url' = ""
            /\ UNCHANGED << blob_uploads, lead_fetches >>
       ELSE \/ \* the upload raises: the script run ends with the exception
               /\ blob_uploads' = Append(blob_uploads,
                      [ label |-> selected_campaign_name, rows |-> FlaggedRows, ok |-> FALSE ])
               /\ UNCHANGED << ss_leads_to_remove, lead_details, filtered_blob_url,
                               lead_fetches >>
            \/ \E first_ok \in BOOLEAN :
                 LET fetched == GetLeadsOfCampaign(selected_campaign_id[1], first_ok) IN
                 /\ blob_uploads' = Append(blob_uploads,
                        [ label |-> selected_campaign_name, rows |-> FlaggedRows, ok |-> TRUE ])
                 /\ ss_leads_to_remove' = FlaggedRows
                 /\ filtered_blob_url' = BlobUrl(selected_campaign_name)
                 /\ lead_fetches' = Append(lead_fetches,
                        [ campaign_id |-> selected_campaign_id[1], leads |-> fetched ])
                 /\ lead_details' = LeadDetails(fetched, FlaggedRows)
    /\ filter_run' = [ filter_run EXCEPT !.ended = "continued" ]
    /\ UNCHANGED << campaign_mappings, selected_campaign_id, selected_campaign_name,
                    removing, remove_clicks >>
    /\ ProcessLeadsEnds
    /\ UNCHANGED << pageVars, platformVars, followVars, dupVars, deleteVars >>

\* Variant of FilterAndUploadRaises: the failure is handled like an empty result
FilterAndUploadRaises_Clears ==
    /\ filter_pc = "filtering"
    /\ cls_pc = "raised"
    /\ filter_pc' = "idle"
    /\ filter_run' = [ filter_run EXCEPT !.ended = "raised" ]
    /\ ss_leads_to_remove' = << >>
    /\ lead_details' = << >>
    /\ filtered_blob_url' = ""
    /\ UNCHANGED << campaign_mappings, selected_campaign_id, selected_campaign_name,
                    removing, blob_uploads, lead_fetches, remove_clicks >>
    /\ ProcessLeadsEnds
    /\ UNCHANGED << pageVars, platformVars, followVars, dupVars, deleteVars >>

\* filter_leads_from_campaign.py:246-253: process_leads raised, the exception
\* leaves the handler and ends the script run
FilterAndUploadRaises ==
    /\ filter_pc = "filtering"
    /\ cls_pc = "raised"
    /\ filter_pc' = "idle"
    /\ filter_run' = [ filter_run EXCEPT !.ended = "raised" ]
    /\ UNCHANGED << campaign_mappings, selected_campaign_id, selected_campaign_name,
                    ss_leads_to_remove, lead_details, filtered_blob_url, removing,
                    blob_uploads, lead_fetches, remove_clicks >>
    /\ ProcessLeadsEnds
    /\ UNCHANGED << pageVars, platformVars, followVars, dupVars, deleteVars >>

\* filter_leads_from_campaign.py:290-305: the CTA is rendered only for a
\* non-empty ss.lead_details; the click sets the flag and reruns
ClickRemove ==
    /\ filter_pc = "idle"
    /\ ~removing
    /\ lead_details # << >>
    /\ remove_clicks < MaxRemoveClicks
    /\ removing' = TRUE
    /\ remove_clicks' = remove_clicks + 1
    /\ UNCHANGED << campaign_mappings, selected_campaign_id, selected_campaign_name,
                    ss_leads_to_remove, lead_details, filtered_blob_url, filter_pc,
                    filter_run, blob_uploads, lead_fetches >>
    /\ UNCHANGED << pageVars, platformVars, followVars, dupVars, classifyVars, deleteVars >>

\* filter_leads_from_campaign.py:308-325
PerformRemoval ==
    /\ removing
    /\ \E http_ok \in BOOLEAN :
         LET ids == [ i \in DOMAIN lead_details |-> lead_details[i].leadId ]
             map_ids == [ i \in DOMAIN lead_details |-> lead_details[i].leadMappingId ]
             cid == StrOfInt(selected_campaign_id[1])
             r == RemoveMultipleLeadsFromCampaign(cid, ids, map_ids, auth_token, http_ok)
         IN  remove_calls' = Append(remove_calls,
                [ campaign_id |-> cid, lead_ids |-> ids, lead_map_ids |-> map_ids,
                  token |-> auth_token, raised |-> r.raised, error |-> r.error,
                  events |-> r.events,
                  \* the session and the logs at the time of the call
                  details |-> lead_details, flagged |-> ss_leads_to_remove,
                  fetches |-> Len(lead_fetches), clicks |-> remove_clicks ])
    /\ removing' = FALSE
    /\ UNCHANGED << smartlead_campaign_id, email_lead_ids, email_lead_map_ids, auth_token >>
    /\ UNCHANGED << campaign_mappings, selected_campaign_id, selected_campaign_name,
                    ss_leads_to_remove, lead_details, filtered_blob_url, filter_pc,
                    filter_run, blob_uploads, lead_fetches, remove_clicks >>
    /\ UNCHANGED << pageVars, platformVars, followVars, dupVars, classifyVars >>

(***************************************************************************)
(* Initial states and specifications                                       *)
(***************************************************************************)
\* The state of each part of the program before it is used
IdlePage ==
    /\ campaign_leads = << >>
    /\ lead_category_id = None
    /\ event_time = None
    /\ leads = << >>
    /\ total_leads = None
    /\ page_pc = "idle"
    /\ requests = << >>

IdlePlatform ==
    /\ sequences = [ c \in Campaigns |-> << >> ]
    /\ follow_up_percentage = [ c \in Campaigns |-> 40 ]
    /\ platform_next_id = 1000

\* add_follow_ups.py:19-26
IdleFollow ==
    /\ selected_campaigns = << >>
    /\ delay_period = 0
    /\ change_follow_up_percentage = FALSE
    /\ running_add_followups = FALSE
    /\ successful_campaigns = << >>
    /\ failed_campaigns = << >>
    /\ runner_i = 0
    /\ runs = 0
    /\ api_log = << >>

IdleDup ==
    /\ dup_expected = None
    /\ dup_calls = << >>

\* filter_leads_from_campaign.py:104: process_leads before it is called
IdleClassify ==
    /\ raw_leads = << >>
    /\ blocklisted_industries = ""
    /\ whitelisted_industries = ""
    /\ whitelisted_areas = ""
    /\ cls_pc = "idle"
    /\ batch_idx = 0
    /\ leads_to_remove = << >>
    /\ task = << >>
    /\ model_calls = << >>

IdleDelete ==
    /\ smartlead_campaign_id = ""
    /\ email_lead_ids = << >>
    /\ email_lead_map_ids = << >>
    /\ auth_token = None
    /\ remove_calls = << >>

\* filter_leads_from_campaign.py:146-153
IdleFilter ==
    /\ campaign_mappings = [ c \in Campaigns |-> << >> ]
    /\ selected_campaign_id = None
    /\ selected_campaign_name = ""
    /\ ss_leads_to_remove = << >>
    /\ lead_details = << >>
    /\ filtered_blob_url = ""
    /\ removing = FALSE
    /\ filter_pc = "idle"
    /\ filter_run = [ runs |-> 0, leads_to_remove |-> << >>, lead_details |-> << >>,
                     filtered_blob_url |-> "", uploads |-> 0, fetches |-> 0,
                      ended |-> "" ]
    /\ blob_uploads = << >>
    /\ lead_fetches = << >>
    /\ remove_clicks = 0

\* ---- lead pagination
CampaignLeadLists ==
    UNION { [ 1..n -> [ cat : LeadCategories, recent : BOOLEAN ] ] : n \in 0..MaxCampaignLeads }

InitPage ==
    /\ \E shape \in CampaignLeadLists :
          campaign_leads = [ i \in DOMAIN shape |->
                               [ id |-> i, cat |-> shape[i].cat, recent |-> shape[i].recent ] ]
    /\ lead_category_id \in CategoryArgs
    /\ event_time \in EventTimes
    /\ leads = << >>
    /\ total_leads = None
    /\ page_pc = "first"
    /\ requests = << >>
    /\ IdlePlatform /\ IdleFollow /\ IdleDup /\ IdleClassify /\ IdleDelete /\ IdleFilter

NextPageSpec == FirstPage \/ NextPage \/ ReturnLeads

SpecPage == InitPage /\ [][NextPageSpec]_vars

\* ---- lead pagination on an unchanging campaign, every request answered
SpecPageFair == InitPage /\ [][NextPageSpec]_vars /\ WF_vars(NextPageSpec)

\* ---- lead pagination on a campaign that may lose leads meanwhile.  Every
\* request is answered, and a request fails at most MaxFailures times.
NextPageLive == NextPageSpec \/ LeadLeavesCampaign

SpecPageLive == InitPage /\ [][NextPageLive]_vars /\ WF_vars(NextPageSpec)

\* ---- sequences as the platform stores them
Delays == {1, 2, 3}

PlatformVariantsOf(seq_id, n) ==
    LET variant(j, label) ==
          [ id |-> 10 * seq_id + j, subject |-> << "subject", seq_id, label >>,
            email_body |-> << "body", seq_id, label >>, variant_label |-> label,
            variant_distribution_percentage |-> IF j = 1 THEN Some(50) ELSE None ]
    IN  CASE n % 3 = 1 -> Some(<< variant(1, "A"), variant(2, "B") >>)
          [] n % 3 = 2 -> None
          [] OTHER     -> Some(<< >>)

PlatformSequenceOf(cid, n, delay) ==
    [ id                |-> 100 * cid + n,
      seq_number        |-> n,
      subject           |-> << "subject", cid, n >>,
      email_body        |-> << "body", cid, n >>,
      seq_delay_details |-> [ delayInDays |-> delay ],
      sequence_variants |-> PlatformVariantsOf(100 * cid + n, n) ]

Orders(k) == { f \in [ 1..k -> 1..k ] : \A a, b \in 1..k : a # b => f[a] # f[b] }

\* ---- direct calls of the Sequence Duplicator on campaign 1
InitDup ==
    /\ \E k \in 0..MaxSequences :
         \E order \in Orders(k), delays \in [ 1..k -> Delays ] :
            sequences = [ c \in Campaigns |->
                            IF c = 1
                            THEN [ p \in 1..k |-> PlatformSequenceOf(1, order[p], delays[p]) ]
                            ELSE << >> ]
    /\ follow_up_percentage = [ c \in Campaigns |-> 40 ]
    /\ platform_next_id = 1000
    /\ delay_period = 5
    /\ dup_expected \in ExpectedLengths
    /\ dup_calls = << >>
    /\ selected_campaigns = << >>
    /\ change_follow_up_percentage = FALSE
    /\ running_add_followups = FALSE
    /\ successful_campaigns = << >>
    /\ failed_campaigns = << >>
    /\ runner_i = 0
    /\ runs = 0
    /\ api_log = << >>
    /\ IdlePage /\ IdleClassify /\ IdleDelete /\ IdleFilter

NextDup == CallAddFollowUps

SpecDup == InitDup /\ [][NextDup]_vars

\* ---- follow-up workflow
MaxFollowSequences == 1     \* sequences of a campaign when the page is opened

InitFollow ==
    /\ \E k \in [ Campaigns -> 0..MaxFollowSequences ] :
         sequences = [ c \in Campaigns |-> [ p \in 1..k[c] |-> PlatformSequenceOf(c, p, p) ] ]
    /\ follow_up_percentage = [ c \in Campaigns |-> 40 ]
    /\ platform_next_id = 1000
    /\ IdleFollow /\ IdleDup /\ IdlePage /\ IdleClassify /\ IdleDelete /\ IdleFilter

NextFollow == ClickAddFollowUps \/ ProcessCampaign \/ FinishRun

SpecFollow == InitFollow /\ [][NextFollow]_vars

\* ---- lead classifier
LeadKinds == { [ Location |-> Some("Austin, TX"), informalIndustry |-> Some("SaaS") ],
               [ Location |-> Some(""), informalIndustry |-> None ] }
CriteriaTexts == { "", "first;second" }

InitClassify ==
    /\ raw_leads \in UNION { [ 1..n -> LeadKinds ] : n \in 0..MaxRawLeads }
    /\ blocklisted_industries \in CriteriaTexts
    /\ whitelisted_industries \in CriteriaTexts
    /\ whitelisted_areas \in CriteriaTexts
    /\ cls_pc = "loop"
    /\ batch_idx = 0
    /\ leads_to_remove = << >>
    /\ task = [ i \in DOMAIN raw_leads |-> "new" ]
    /\ model_calls = [ i \in DOMAIN raw_leads |-> << >> ]
    /\ IdlePage /\ IdlePlatform /\ IdleFollow /\ IdleDup /\ IdleDelete /\ IdleFilter

NextClassify ==
    StartBatch \/ ModelAnswers \/ ModelCallFails \/ FinishBatch \/ ReturnLeadsToRemove

SpecClassify == InitClassify /\ [][NextClassify]_vars

\* ---- direct calls of the lead deletion
LeadIdValues == {1, 2}
IdLists == UNION { [ 1..n -> LeadIdValues ] : n \in 0..MaxIds }

InitDelete ==
    /\ smartlead_campaign_id \in { "1", "2" }
    /\ email_lead_ids \in IdLists
    /\ email_lead_map_ids \in IdLists
    /\ auth_token \in { None, Some(""), Some("token") }
    /\ remove_calls = << >>
    /\ IdlePage /\ IdlePlatform /\ IdleFollow /\ IdleDup /\ IdleClassify /\ IdleFilter

NextDelete == CallRemoveMultipleLeads

SpecDelete == InitDelete /\ [][NextDelete]_vars

\* ---- filter-leads page
\* Lead mappings of the campaigns on the platform
Mapping(lead_id, map_id, email) ==
    [ campaign_lead_map_id |-> map_id, lead |-> [ id |-> lead_id, email |-> email ] ]

PlatformMappings ==
    [ c \in Campaigns |->
        IF c = 1 THEN << Mapping(11, 101, "a@x.io"), Mapping(12, 102, "b@x.io") >>
        ELSE << Mapping(21, 201, "a@x.io"), Mapping(22, 202, "c@x.io") >> ]

\* Rows of the uploaded CSV (csv_to_json).  A row without Location is kept
\* without a model call; a row may lack the Email column value.
FileRow(email, location) ==
    [ Email |-> email, Location |-> location, informalIndustry |-> None ]

\* A file of one row without Email, and a file that needs two batches whose
\* first and last rows are the ones the model is asked about
UploadedFiles ==
    { << FileRow(None, Some("Austin, TX")) >>,
      [ i \in 1..(ChunkSize + 1) |->
          IF i = 1 THEN FileRow(Some("a@x.io"), Some("Austin, TX"))
          ELSE IF i = ChunkSize + 1 THEN FileRow(Some("b@x.io"), Some("Boston, MA"))
          ELSE FileRow(Some("c@x.io"), Some("")) ] }

\* The page after its first script run: the first campaign is selected, a
\* file is uploaded and the area filter is filled in
InitFilter ==
    /\ campaign_mappings = PlatformMappings
    /\ selected_campaign_id = Some(1)
    /\ selected_campaign_name = CampaignName(1)
    /\ ss_leads_to_remove = << >>
    /\ lead_details = << >>
    /\ filtered_blob_url = ""
    /\ removing = FALSE
    /\ filter_pc = "idle"
    /\ filter_run = [ runs |-> 0, leads_to_remove |-> << >>, lead_details |-> << >>,
                     filtered_blob_url |-> "", uploads |-> 0, fetches |-> 0,
                      ended |-> "" ]
    /\ blob_uploads = << >>
    /\ lead_fetches = << >>
    /\ remove_clicks = 0
    /\ raw_leads \in UploadedFiles
    /\ blocklisted_industries = ""
    /\ whitelisted_industries = ""
    /\ whitelisted_areas = "first;second"
    /\ cls_pc = "idle"
    /\ batch_idx = 0
    /\ leads_to_remove = << >>
    /\ task = [ i \in DOMAIN raw_leads |-> "new" ]
    /\ model_calls = [ i \in DOMAIN raw_leads |-> << >> ]
    /\ smartlead_campaign_id = ""
    /\ email_lead_ids = << >>
    /\ email_lead_map_ids = << >>
    /\ auth_token \in { None, Some("token") }
    /\ remove_calls = << >>
    /\ IdlePage /\ IdlePlatform /\ IdleFollow /\ IdleDup

NextFilter ==
    \/ SelectCampaign
    \/ ClickFilterAndUpload
    \/ StartBatch \/ ModelAnswers \/ ModelCallFails \/ FinishBatch \/ ReturnLeadsToRemove
    \/ FilterAndUploadContinues
    \/ FilterAndUploadRaises
    \/ ClickRemove
    \/ PerformRemoval

SpecFilter == InitFilter /\ [][NextFilter]_vars

(***************************************************************************)
(* Properties                                                              *)
(***************************************************************************)
FirstPageSucceeded == requests # << >> /\ requests[1].ok

\* C1 (SpecPage): when get_leads_by_campaign_id_with_pagination returns after a
\* successful first page that reported total_leads = N, the returned list is
\* exactly the N leads of the campaign that pass the caller's filters, each once
\* and in platform order.
C1_ReturnsExactlyTheFilteredLeads ==
    (page_pc = "returned" /\ FirstPageSucceeded) =>
        LET Wanted(l) == /\ (TruthyStr(event_time) => l.recent)
                         /\ (lead_category_id # None => l.cat = lead_category_id[1])
        IN  /\ leads = SelectSeq(campaign_leads, Wanted)
            /\ Len(leads) = total_leads[1]

\* Calls of the duplicator that submitted a payload, and that payload
Submitted(call) == Len(call.calls) = 2 /\ call.calls[2].op = "add_sequences_to_campaign"
PayloadOf(call) == call.calls[2].arg

HasVariants(seq) == seq.sequence_variants # None /\ seq.sequence_variants[1] # << >>

SameVariantContents(v, w) ==
    /\ v.subject = w.subject
    /\ v.email_body = w.email_body
    /\ v.variant_label = w.variant_label
    /\ v.variant_distribution_percentage = w.variant_distribution_percentage

\* C2 (SpecDup): the payload submitted for K existing sequences has length 2K:
\* the K originals in order with sequence id, number and variant ids kept, then
\* K clones in the same order numbered K+1..2K, with no id on the clone or on
\* its variants, and subject, body and variant contents of the source.
C2_PayloadIsOriginalsThenNumberedClones ==
    \A c \in DOMAIN dup_calls :
        Submitted(dup_calls[c]) =>
            LET src == dup_calls[c].before
                pl == PayloadOf(dup_calls[c])
                K == Len(src)
            IN  /\ Len(pl) = 2 * K
                /\ \A i \in 1..K :
                     /\ pl[i].id = Some(src[i].id)
                     /\ pl[i].seq_number = src[i].seq_number
                     /\ pl[K + i].id = None
                     /\ pl[K + i].seq_number = K + i
                     /\ pl[K + i].subject = Some(src[i].subject)
                     /\ pl[K + i].email_body = Some(src[i].email_body)
                     /\ IF HasVariants(src[i])
                        THEN LET vs == src[i].sequence_variants[1] IN
                             /\ pl[i].seq_variants # None
                             /\ pl[K + i].seq_variants # None
                             /\ Len(pl[i].seq_variants[1]) = Len(vs)
                             /\ Len(pl[K + i].seq_variants[1]) = Len(vs)
                             /\ \A j \in DOMAIN vs :
                                  /\ pl[i].seq_variants[1][j].id = Some(vs[j].id)
                                  /\ pl[K + i].seq_variants[1][j].id = None
                                  /\ SameVariantContents(pl[K + i].seq_variants[1][j], vs[j])
                        ELSE pl[i].seq_variants = None /\ pl[K + i].seq_variants = None

\* C2 witness: a payload was submitted for three sequences, listed by the
\* platform out of sequence-number order, one of which carries variants.
C2_Witness ==
    \E c \in DOMAIN dup_calls :
        /\ Submitted(dup_calls[c])
        /\ Len(dup_calls[c].before) = 3
        /\ dup_calls[c].before[1].seq_number = 2
        /\ HasVariants(dup_calls[c].before[2])
        /\ Len(PayloadOf(dup_calls[c])) = 6

\* C3 (SpecDup): in the submitted payload every original keeps its delay, the
\* first clone has the caller's delay_period, every later clone the delay of
\* its source sequence.
C3_OnlyFirstCloneGetsDelayPeriod ==
    \A c \in DOMAIN dup_calls :
        Submitted(dup_calls[c]) =>
            LET src == dup_calls[c].before
                pl == PayloadOf(dup_calls[c])
                K == Len(src)
            IN  \A i \in 1..K :
                  /\ pl[i].seq_delay_details.delay_in_days = src[i].seq_delay_details.delayInDays
                  /\ i = 1 => pl[K + i].seq_delay_details.delay_in_days = delay_period
                  /\ i > 1 => pl[K + i].seq_delay_details.delay_in_days
                                = src[i].seq_delay_details.delayInDays

\* C3 witness: originals with delays 1,2,3 and delay_period = 5 were submitted
\* with clones numbered 4,5,6 whose delays are 5,2,3.
C3_Witness ==
    \E c \in DOMAIN dup_calls :
        /\ Submitted(dup_calls[c])
        /\ delay_period = 5
        /\ Len(dup_calls[c].before) = 3
        /\ \A i \in 1..3 : dup_calls[c].before[i].seq_delay_details.delayInDays = i
        /\ LET pl == PayloadOf(dup_calls[c]) IN
           /\ << pl[4].seq_number, pl[5].seq_number, pl[6].seq_number >> = << 4, 5, 6 >>
           /\ << pl[4].seq_delay_details.delay_in_days, pl[5].seq_delay_details.delay_in_days,
                 pl[6].seq_delay_details.delay_in_days >> = << 5, 2, 3 >>

\* The campaign's sequences on the platform when call c ended
AfterCall(c) == IF c < Len(dup_calls) THEN dup_calls[c + 1].before ELSE sequences[1]

AddRequested(call) == \E k \in DOMAIN call.calls : call.calls[k].op = "add_sequences_to_campaign"

\* C5 (SpecDup): a call with expected_sequence_length given and at most the
\* current sequence count sends no add-sequences request and leaves the
\* campaign's sequences as they were; so a second call whose
\* expected_sequence_length equals the count the first call left is a no-op.
C5_ShortCircuitIsNoOp ==
    /\ \A c \in DOMAIN dup_calls :
         (dup_calls[c].expected # None /\ Len(dup_calls[c].before) >= dup_calls[c].expected[1]) =>
            /\ ~AddRequested(dup_calls[c])
            /\ AfterCall(c) = dup_calls[c].before
    /\ \A c \in DOMAIN dup_calls :
         (c > 1 /\ dup_calls[c].expected = Some(Len(AfterCall(c - 1)))) =>
            /\ ~AddRequested(dup_calls[c])
            /\ AfterCall(c) = AfterCall(c - 1)

\* C5 witness: the first call doubled K > 0 sequences to the expected length,
\* the second call with the same expected length then ended without a request.
C5_Witness ==
    /\ Len(dup_calls) = 2
    /\ Submitted(dup_calls[1]) /\ dup_calls[1].calls[2].ok
    /\ Len(dup_calls[1].before) > 0
    /\ Len(AfterCall(1)) = 2 * Len(dup_calls[1].before)
    /\ dup_calls[2].expected = Some(Len(AfterCall(1)))
    /\ ~dup_calls[2].raised
    /\ ~AddRequested(dup_calls[2])
    /\ Len(sequences[1]) = 2 * Len(dup_calls[1].before)

\* The calls the current run made for campaign cid
CallsFor(cid) == LET Mine(call) == call.cid = cid IN SelectSeq(api_log, Mine)
Handled == { selected_campaigns[i] : i \in 1..runner_i }
RowIds(rows) == { rows[i].campaign_id : i \in DOMAIN rows }

\* C4 (SpecFollow): with the option on, a handled campaign whose statistics
\* pass the gate and for which no request failed on the platform side has its
\* follow-up percentage set to 90 by a call that returns the updated id, then
\* has the duplicator run, and is reported as successful.
C4_GatedCampaignIsUpdatedThenDuplicated ==
    \A cid \in Handled :
        LET mine == CallsFor(cid) IN
        ( /\ change_follow_up_percentage
          /\ mine # << >>
          /\ mine[1].op = "get_campaign_statistics" /\ mine[1].ok
          /\ (mine[1].arg[1].total = 0
                \/ 10 * mine[1].arg[1].unique_sent_count >= 7 * mine[1].arg[1].total)
          /\ \A k \in DOMAIN mine : ~(mine[k].sent /\ ~mine[k].ok) )
        =>
        ( /\ Len(mine) >= 3
          /\ mine[2].op = "update_smartlead_campaign_follow_up_percentage"
          /\ mine[2].ok /\ mine[2].arg.returns = Some(cid)
          /\ follow_up_percentage[cid] = 90
          /\ mine[3].op = "get_campaign_sequences"
          /\ cid \in RowIds(successful_campaigns) )

UpdateCalled(cid) ==
    \E k \in DOMAIN api_log :
        api_log[k].cid = cid /\ api_log[k].op = "update_smartlead_campaign_follow_up_percentage"

StatsFetched(cid) ==
    \E k \in DOMAIN api_log : api_log[k].cid = cid /\ api_log[k].op = "get_campaign_statistics"

StatsOf(cid) ==
    LET k == CHOOSE k \in DOMAIN api_log :
                 api_log[k].cid = cid /\ api_log[k].op = "get_campaign_statistics"
    IN  api_log[k]

\* C6 (SpecFollow): for a handled campaign the workflow calls the percentage
\* update (with 90) if and only if the option is on, the statistics arrived and
\* total_leads = 0 or unique_sent_count / total_leads >= 7/10: it is called for
\* total 0 whatever the sent count, for 70 of 100, and not for 69 of 100.  With
\* the option off neither the statistics nor the update is requested.
C6_UpdateCalledIffGate ==
    \A cid \in Handled :
        /\ UpdateCalled(cid) <=>
             /\ change_follow_up_percentage
             /\ StatsFetched(cid) /\ StatsOf(cid).ok
             /\ LET st == StatsOf(cid).arg[1] IN
                st.total = 0 \/ 10 * st.unique_sent_count >= 7 * st.total
        /\ (change_follow_up_percentage /\ StatsFetched(cid) /\ StatsOf(cid).ok) =>
             LET st == StatsOf(cid).arg[1] IN
             /\ st.total = 0 => UpdateCalled(cid)
             /\ (st.total = 100 /\ st.unique_sent_count = 70) => UpdateCalled(cid)
             /\ (st.total = 100 /\ st.unique_sent_count = 69) => ~UpdateCalled(cid)
        /\ \A k \in DOMAIN api_log :
             api_log[k].op = "update_smartlead_campaign_follow_up_percentage"
                => api_log[k].arg.follow_up_percentage = 90
        /\ ~change_follow_up_percentage => ~StatsFetched(cid) /\ ~UpdateCalled(cid)

\* C6 witness: in one run the update was called for a campaign at 70 of 100
\* and not called for a campaign at 69 of 100.
C6_Witness ==
    \E a, b \in Handled :
        /\ StatsFetched(a) /\ StatsOf(a).ok
        /\ StatsOf(a).arg[1] = [ total |-> 100, unique_sent_count |-> 70 ]
        /\ UpdateCalled(a)
        /\ StatsFetched(b) /\ StatsOf(b).ok
        /\ StatsOf(b).arg[1] = [ total |-> 100, unique_sent_count |-> 69 ]
        /\ ~UpdateCalled(b)

\* The reports hold every selected campaign exactly once, in selection order
InSelectionOrder(rows) ==
    \A a, b \in DOMAIN rows :
        a < b => \E x, y \in DOMAIN selected_campaigns :
                    /\ x < y
                    /\ selected_campaigns[x] = rows[a].campaign_id
                    /\ selected_campaigns[y] = rows[b].campaign_id

RunReportComplete ==
    /\ ~running_add_followups
    /\ runner_i = Len(selected_campaigns)
    /\ Len(successful_campaigns) + Len(failed_campaigns) = Len(selected_campaigns)
    /\ \A i \in DOMAIN selected_campaigns :
         LET cid == selected_campaigns[i] IN
         Cardinality({ k \in DOMAIN successful_campaigns : successful_campaigns[k].campaign_id = cid })
           + Cardinality({ k \in DOMAIN failed_campaigns : failed_campaigns[k].campaign_id = cid })
           = 1
    /\ InSelectionOrder(successful_campaigns)
    /\ InSelectionOrder(failed_campaigns)

\* C7 (SpecFollow): whatever fails for whichever campaign, while a run is in
\* progress the campaigns handled so far are each in exactly one report, and
\* the step that ends the run leaves every selected campaign in exactly one of
\* successful_campaigns and failed_campaigns, in selection order, with
\* running_add_followups false.
C7_EveryCampaignReportedOnce ==
    [][ /\ running_add_followups' =>
            Len(successful_campaigns') + Len(failed_campaigns') = runner_i'
        /\ (running_add_followups /\ ~running_add_followups') => RunReportComplete' ]_vars

\* C7 witness: a run over two campaigns has ended in which the first campaign
\* failed and the second one, handled after it, succeeded.
C7_Witness ==
    /\ runs > 0 /\ ~running_add_followups
    /\ Len(selected_campaigns) = 2 /\ runner_i = 2
    /\ Len(failed_campaigns) = 1 /\ Len(successful_campaigns) = 1
    /\ failed_campaigns[1].campaign_id = selected_campaigns[1]
    /\ successful_campaigns[1].campaign_id = selected_campaigns[2]

\* The model calls made for lead i: the completed ones, then the one in flight
CallsMade(i) ==
    [ k \in DOMAIN model_calls[i] |-> model_calls[i][k].predicate ]
        \o (IF task[i] \in { "area", "blocklist", "whitelist" } THEN << task[i] >> ELSE << >>)

Rank(predicate) ==
    CASE predicate = "area" -> 1 [] predicate = "blocklist" -> 2 [] predicate = "whitelist" -> 3

\* The answers of RawAnswers that read "no" / "yes" once trimmed and lower-cased
MeansNo == { << " ", "N", "o", "\n" >> }
MeansYes == { << "Y", "E", "S" >> }

SaysRemove(call) ==
    /\ ~call.failed
    /\ \/ call.predicate = "area" /\ call.content \in MeansNo
       \/ call.predicate = "blocklist" /\ call.content \in MeansYes
       \/ call.predicate = "whitelist" /\ call.content \in MeansNo

\* C8 (SpecClassify): for each lead the model calls are made in the order area
\* whitelist, industry blocklist, industry whitelist, and a call whose answer
\* says remove is the last one made for that lead.
C8_ShortCircuitInFixedOrder ==
    \A i \in DOMAIN raw_leads :
        LET made == CallsMade(i) IN
        /\ \A a, b \in DOMAIN made : a < b => Rank(made[a]) < Rank(made[b])
        /\ \A k \in DOMAIN model_calls[i] :
             SaysRemove(model_calls[i][k]) => k = Len(made) /\ task[i] = "remove"

\* C8 witness: process_leads returned; one lead was flagged by the location
\* check alone, another by the blocklist check after the location check passed,
\* with all three criteria given and both leads having location and industry.
C8_Witness ==
    /\ cls_pc = "returned"
    /\ whitelisted_areas # "" /\ blocklisted_industries # "" /\ whitelisted_industries # ""
    /\ \E i, j \in DOMAIN raw_leads :
         /\ raw_leads[i].informalIndustry = Some("SaaS")
         /\ Len(model_calls[i]) = 1
         /\ model_calls[i][1].predicate = "area" /\ model_calls[i][1].content \in MeansNo
         /\ Len(model_calls[j]) = 2
         /\ model_calls[j][2].predicate = "blocklist" /\ model_calls[j][2].content \in MeansYes

NonEmpty(o) == o # None /\ o # Some("")

Answered(i, predicate, contents) ==
    \E k \in DOMAIN model_calls[i] :
        /\ model_calls[i][k].predicate = predicate
        /\ ~model_calls[i][k].failed
        /\ model_calls[i][k].content \in contents

Asked(i, predicate) ==
    \E k \in DOMAIN model_calls[i] : model_calls[i][k].predicate = predicate

ShouldRemove(i) ==
    \/ /\ NonEmpty(raw_leads[i].Location) /\ whitelisted_areas # ""
       /\ Answered(i, "area", MeansNo)
    \/ /\ NonEmpty(raw_leads[i].informalIndustry) /\ blocklisted_industries # ""
       /\ Answered(i, "blocklist", MeansYes)
    \/ /\ NonEmpty(raw_leads[i].informalIndustry) /\ whitelisted_industries # ""
       /\ Answered(i, "whitelist", MeansNo)

\* C9 (SpecClassify): when process_leads returns, it returns exactly the input
\* leads, in input order, for which a predicate is true: the location check on
\* the answer "no", the blocklist check on "yes", the industry whitelist check
\* on "no" (trimmed, lower-cased), each only with both of its sides non-empty;
\* a predicate with an empty side is never put to the model.
C9_ReturnsLeadsWithATruePredicate ==
    /\ cls_pc = "returned" =>
         leads_to_remove = SelectSeq([ i \in DOMAIN raw_leads |-> i ], ShouldRemove)
    /\ \A i \in DOMAIN raw_leads :
         /\ ~(NonEmpty(raw_leads[i].Location) /\ whitelisted_areas # "") => ~Asked(i, "area")
         /\ ~(NonEmpty(raw_leads[i].informalIndustry) /\ blocklisted_industries # "")
                => ~Asked(i, "blocklist")
         /\ ~(NonEmpty(raw_leads[i].informalIndustry) /\ whitelisted_industries # "")
                => ~Asked(i, "whitelist")

\* C9 witness: of three leads the first and the third are returned; the second
\* went through all three checks with answers that flag nothing.
C9_Witness ==
    /\ cls_pc = "returned"
    /\ Len(raw_leads) = 3
    /\ leads_to_remove = << 1, 3 >>
    /\ Len(model_calls[2]) = 3
    /\ model_calls[2][1].content = << "n", "o", "." >>
    /\ Answered(3, "whitelist", MeansNo)

Requests(call) ==
    { k \in DOMAIN call.events : call.events[k].event = "request" }

OnePostWithBothLists(call) ==
    /\ Cardinality(Requests(call)) = 1
    /\ \A k \in Requests(call) :
         /\ call.events[k].method = "POST"
         /\ call.events[k].body[1].campaignId = call.campaign_id
         /\ call.events[k].body[1].emailLeadIds = call.lead_ids
         /\ call.events[k].body[1].emailLeadMapIds = call.lead_map_ids

RaisedBeforeAnything(call) ==
    call.raised /\ call.error = "ValueError" /\ call.events = << >>

\* C10 as stated (SpecDelete): lists of different lengths raise before the
\* token is read and before any request; lists of equal length lead to exactly
\* one POST carrying the campaign id and both lists.
C10_Original_EqualLengthsAlwaysPost ==
    \A c \in DOMAIN remove_calls :
        LET call == remove_calls[c] IN
        IF Len(call.lead_ids) # Len(call.lead_map_ids)
        THEN RaisedBeforeAnything(call)
        ELSE OnePostWithBothLists(call)

\* C10 (SpecDelete), amended: lists of different lengths raise ValueError before
\* the token is read and before any request; lists of equal length lead to
\* exactly one POST carrying the campaign id and both lists when the bearer
\* token is set, and to an error without any request when it is unset or empty.
C10_LengthCheckBeforeAnyRequest ==
    \A c \in DOMAIN remove_calls :
        LET call == remove_calls[c] IN
        IF Len(call.lead_ids) # Len(call.lead_map_ids)
        THEN RaisedBeforeAnything(call)
        ELSE IF call.token # None /\ call.token # Some("")
        THEN OnePostWithBothLists(call)
        ELSE call.raised /\ Requests(call) = {}

\* C10 witness: with the token set, a call with two lead ids and one mapping
\* id raised ValueError.
C10_Witness ==
    \E c \in DOMAIN remove_calls :
        /\ remove_calls[c].token = Some("token")
        /\ Len(remove_calls[c].lead_ids) = 2
        /\ Len(remove_calls[c].lead_map_ids) = 1
        /\ remove_calls[c].error = "ValueError"

(***************************************************************************)
(* Filter-leads page: deletion is gated and paired                         *)
(***************************************************************************)
DeleteRequests(call) ==
    { call.events[k].body[1] : k \in Requests(call) }

\* The fetched mappings whose lead email is the Email of some flagged row
MatchedMappings(fetched, flagged) ==
    LET Hit(m) == \E row \in Range(flagged) : row.Email # None /\ row.Email[1] = m.lead.email
    IN  SelectSeq(fetched, Hit)

DetailsAreTheMatches(details, fetched, flagged) ==
    LET matched == MatchedMappings(fetched, flagged) IN
    /\ Len(details) = Len(matched)
    /\ \A i \in DOMAIN details :
         /\ details[i].leadId = matched[i].lead.id
         /\ details[i].leadMappingId = matched[i].campaign_lead_map_id

PositionallyPaired(body, fetched) ==
    /\ Len(body.emailLeadIds) = Len(body.emailLeadMapIds)
    /\ \A i \in DOMAIN body.emailLeadIds :
         \E m \in Range(fetched) :
            /\ m.lead.id = body.emailLeadIds[i]
            /\ m.campaign_lead_map_id = body.emailLeadMapIds[i]

\* C11 (SpecFilter): a delete request is sent only after a classification run
\* flagged at least one lead, the flagged rows were uploaded, lead_details came
\* out non-empty and the remove confirmation was clicked; lead_details is
\* exactly the fetched mappings whose email is the Email of a flagged row, and
\* the two id lists of the request are paired position by position.
C11_DeleteOnlyAfterFlagUploadMatchAndClick ==
    \A c \in DOMAIN remove_calls :
        LET call == remove_calls[c] IN
        \A body \in DeleteRequests(call) :
            /\ call.flagged # << >>
            /\ Range(call.flagged) \subseteq Range(raw_leads)
            /\ \E u \in DOMAIN blob_uploads :
                  blob_uploads[u].ok /\ blob_uploads[u].rows = call.flagged
            /\ call.fetches > 0
            /\ call.details # << >>
            /\ DetailsAreTheMatches(call.details, lead_fetches[call.fetches].leads, call.flagged)
            /\ call.clicks >= c
            /\ body.emailLeadIds = [ i \in DOMAIN call.details |-> call.details[i].leadId ]
            /\ PositionallyPaired(body, lead_fetches[call.fetches].leads)

\* A delete request for one of two fetched mappings was sent
C11_Witness ==
    \E c \in DOMAIN remove_calls :
        /\ DeleteRequests(remove_calls[c]) # {}
        /\ Len(remove_calls[c].details) = 1
        /\ Len(lead_fetches[remove_calls[c].fetches].leads) = 2

(***************************************************************************)
(* Sequence numbers stay contiguous                                        *)
(***************************************************************************)
SeqNumbers(list) == { list[i].seq_number : i \in DOMAIN list }

\* The sequence numbers of a list are 1..Len, each used once
ContiguousFromOne(list) == SeqNumbers(list) = 1..Len(list)

\* C12 (SpecDup): for sequences the platform lists in any order, the sequence
\* numbers of a submitted payload are pairwise distinct, every clone's number
\* is above the campaign's current maximum, and the numbers of the payload
\* and of the campaign after the request are contiguous from 1.
C12_CloneNumbersFollowTheMaximum ==
    /\ ContiguousFromOne(sequences[1])
    /\ \A c \in DOMAIN dup_calls :
         Submitted(dup_calls[c]) =>
            LET src == dup_calls[c].before
                pl == PayloadOf(dup_calls[c])
            IN  /\ \A i, j \in DOMAIN pl : i # j => pl[i].seq_number # pl[j].seq_number
                /\ \A i \in DOMAIN pl :
                     pl[i].id = None =>
                        \A p \in DOMAIN src : pl[i].seq_number > src[p].seq_number
                /\ ContiguousFromOne(pl)
                /\ ContiguousFromOne(AfterCall(c))

\* C12 witness: two payloads in a row were accepted for a campaign whose
\* sequences the platform listed out of order; it now has four times as many
C12_Witness ==
    /\ Len(dup_calls) = 2
    /\ \A c \in 1..2 : Submitted(dup_calls[c]) /\ dup_calls[c].calls[2].ok
    /\ Len(dup_calls[1].before) >= 2
    /\ dup_calls[1].before[1].seq_number # 1
    /\ Len(sequences[1]) = 4 * Len(dup_calls[1].before)

(***************************************************************************)
(* Lead pagination: termination and failure handling                       *)
(***************************************************************************)
\* C13 (SpecPageLive): when every page request eventually succeeds, the call
\* eventually returns, whatever the sizes of the pages.
C13_PaginationEventuallyReturns == <>(page_pc = "returned")

\* C14 (SpecPage): when the first page request fails the call does not raise;
\* it returns the empty list and sends no further request.
C14_FirstPageFailureReturnsEmpty ==
    /\ page_pc # "raised"
    /\ (requests # << >> /\ ~requests[1].ok) =>
          /\ page_pc = "returned"
          /\ leads = << >>
          /\ Len(requests) = 1

\* C14 witness: the first request for a campaign with leads failed
C14_Witness ==
    /\ campaign_leads # << >>
    /\ requests # << >> /\ ~requests[1].ok
    /\ page_pc = "returned"

(***************************************************************************)
(* Filter-leads page: which campaign the deletion names                    *)
(***************************************************************************)
\* C15 (SpecFilter): the campaign id of every delete request is the campaign
\* whose leads were fetched to compute the lead_details being deleted.
C15_DeleteNamesTheFetchedCampaign ==
    \A c \in DOMAIN remove_calls :
        LET call == remove_calls[c] IN
        \A body \in DeleteRequests(call) :
            /\ call.fetches > 0
            /\ body.campaignId = StrOfInt(lead_fetches[call.fetches].campaign_id)

IsPrefix(s, t) == Len(s) <= Len(t) /\ SubSeq(t, 1, Len(s)) = s

LastRequest(log) == log[Len(log)]

\* A page request of the loop is sent in this step
PageRequested == page_pc = "loop" /\ Len(requests') = Len(requests) + 1

\* C16 (SpecPage): every request after the first carries the number of leads
\* accumulated so far as offset; a failed request leaves the list unchanged and
\* the call in its loop, so the next request has the same offset; a successful
\* one only appends; and the call returns only once the list has reached
\* total_leads, never while the request at an offset is still failing.
C16_RetrySameOffsetKeepsLeads ==
    [][ /\ PageRequested =>
             /\ LastRequest(requests').params.offset = Some(Len(leads))
             /\ (~LastRequest(requests').ok =>
                    /\ leads' = leads
                    /\ page_pc' = "loop"
                    /\ OffsetParams' = OffsetParams)
             /\ IsPrefix(leads, leads')
        /\ (page_pc = "loop" /\ page_pc' # "loop") =>
             /\ page_pc' = "returned"
             /\ Len(leads) >= total_leads[1]
             /\ leads' = leads
      ]_vars

\* C16 witness: the request at offset 1 has failed MaxFailures times in a row
\* and the call is still in its loop with the lead it had
C16_Witness ==
    /\ page_pc = "loop"
    /\ Len(leads) = 1
    /\ Len(requests) = MaxFailures + 1
    /\ \A i \in 2..Len(requests) : ~requests[i].ok /\ requests[i].params.offset = Some(1)

(***************************************************************************)
(* Lead Classifier: concurrency and failure                                *)
(***************************************************************************)
InFlight == { i \in DOMAIN task : Awaiting(i) }

BatchOf(i) == CHOOSE b \in DOMAIN Batches : i \in Range(Batches[b])

RECURSIVE Concat(_)
Concat(lists) == IF lists = << >> THEN << >> ELSE Head(lists) \o Concat(Tail(lists))

\* C17 (SpecClassify): the leads are cut into consecutive batches of at most
\* the batch size; a lead waits for at most one model call at a time, so at
\* most batch-size calls are in flight; and no lead of a later batch has
\* started (let alone called the model) before every check of the batches
\* before it has finished.
C17_InFlightCallsBoundedByBatch ==
    /\ Concat(Batches) = [ i \in DOMAIN raw_leads |-> i ]
    /\ \A b \in DOMAIN Batches : Len(Batches[b]) \in 1..ChunkSize
    /\ Cardinality(InFlight) <= ChunkSize
    /\ \A i \in DOMAIN raw_leads : Len(model_calls[i]) <= Len(Predicates)
    /\ \A i \in DOMAIN raw_leads :
         (task[i] # "new" \/ model_calls[i] # << >>) =>
            /\ BatchOf(i) <= batch_idx
            /\ \A j \in DOMAIN raw_leads : BatchOf(j) < BatchOf(i) => Finished(j)

\* C17 witness: batch-size calls are in flight together while the leads of
\* the second batch have not started
C17_Witness ==
    /\ Len(Batches) = 2
    /\ batch_idx = 1
    /\ Cardinality(InFlight) = ChunkSize
    /\ \A j \in Range(Batches[2]) : task[j] = "new" /\ model_calls[j] = << >>

\* process_leads ended with the exception of a model call, or the run that
\* ended last did
RunFailed ==
    \/ filter_pc = "filtering" /\ cls_pc = "raised"
    \/ filter_pc = "idle" /\ filter_run.ended = "raised"

\* C18 (SpecFilter): when a model call fails, process_leads ends with the
\* exception and returns no list; the failed call is not repeated and no batch
\* after the failing one is started; no blob is uploaded, no campaign leads are
\* fetched, and ss.leads_to_remove, ss.lead_details and ss.filtered_blob_url
\* are what they were before the run.
C18_ModelFailureAbortsTheRun ==
    /\ \A i \in DOMAIN model_calls :
         \A k \in DOMAIN model_calls[i] :
            model_calls[i][k].failed =>
               /\ cls_pc = "raised"
               /\ k = Len(model_calls[i])
               /\ task[i] = "failed"
    /\ cls_pc = "raised" =>
         /\ \E i \in DOMAIN model_calls : model_calls[i] # << >> /\ LastRequest(model_calls[i]).failed
         /\ \A j \in DOMAIN raw_leads :
              BatchOf(j) > batch_idx => task[j] = "new" /\ model_calls[j] = << >>
    /\ RunFailed =>
         /\ Len(blob_uploads) = filter_run.uploads
         /\ Len(lead_fetches) = filter_run.fetches
         /\ ss_leads_to_remove = filter_run.leads_to_remove
         /\ lead_details = filter_run.lead_details
         /\ filtered_blob_url = filter_run.filtered_blob_url

\* C18 witness: the second run failed in its second batch after its first
\* batch had flagged a lead; the session still holds the first run's result
C18_Witness ==
    /\ filter_run.runs = 2
    /\ filter_pc = "filtering" /\ cls_pc = "raised"
    /\ batch_idx = 2
    /\ leads_to_remove # << >>
    /\ lead_details # << >>
    /\ ss_leads_to_remove # FlaggedRows

(***************************************************************************)
(* Follow-up workflow: every run duplicates again                          *)
(***************************************************************************)
\* The client calls one iteration of the runner loop added to the log
NewCalls == SubSeq(api_log', Len(api_log) + 1, Len(api_log'))

RunnerStep == running_add_followups /\ runner_i' = runner_i + 1

\* C19 (SpecFollow): the workflow's duplicator call never short-circuits: each
\* time it has fetched the K sequences of a campaign it submits a payload of
\* 2K sequences, and an accepted payload leaves the campaign with 2K
\* sequences, so the next run on that campaign submits 4K.
C19_WorkflowDoublesOnEveryRun ==
    [][ RunnerStep =>
          \A k \in DOMAIN NewCalls :
             (NewCalls[k].op = "get_campaign_sequences" /\ NewCalls[k].ok) =>
                LET cid == NewCalls[k].cid IN
                /\ k < Len(NewCalls)
                /\ NewCalls[k + 1].op = "add_sequences_to_campaign"
                /\ NewCalls[k + 1].cid = cid
                /\ Len(NewCalls[k + 1].arg) = 2 * Len(sequences[cid])
                /\ NewCalls[k + 1].ok => Len(sequences'[cid]) = 2 * Len(sequences[cid])
      ]_vars

\* Sequences of a campaign that were there when the page was opened
OriginalCount(cid) ==
    Cardinality({ p \in DOMAIN sequences[cid] : sequences[cid][p].id < 1000 })

\* C19 witness: the second run submitted 4K sequences for a campaign that
\* had K = MaxFollowSequences sequences before the first run
C19_Witness ==
    \E cid \in Campaigns :
        /\ runs = 2
        /\ OriginalCount(cid) = MaxFollowSequences
        /\ \E k \in DOMAIN api_log :
              /\ api_log[k].op = "add_sequences_to_campaign"
              /\ api_log[k].cid = cid
              /\ api_log[k].ok
              /\ Len(api_log[k].arg) = 4 * OriginalCount(cid)
        /\ Len(sequences[cid]) = 4 * OriginalCount(cid)

=============================================================================
